---- MODULE Spec2Model ----
(***************************************************************************)
(* Model of runs/relativeRiskAnalysis/makeContourLabels.py: the contour    *)
(* record parser, the contour stitcher, the label placement loop and the   *)
(* two output writers, as one sequential program.                          *)
(*                                                                         *)
(* A text line is a record: kind is the lexical form the script's regular  *)
(* expressions and string tests recognise, x and y are the first two       *)
(* numeric fields in units of 1e-4, z is the third field as the string the *)
(* script keeps, pad tells apart lines that differ only in white space.    *)
(* DataPoint objects live in a heap indexed by the number of the line that *)
(* created them, because the script shares and mutates them in place.      *)
(***************************************************************************)
EXTENDS Integers, Sequences, FiniteSets, TLC

VARIABLES filename, lines, organtech, N, M, i, contour, contours,
          old_contours, s, heap, j, low, m, x, y, labelpoints,
          outfile, labfile, w, pc, err

vars == <<filename, lines, organtech, N, M, i, contour, contours,
          old_contours, s, heap, j, low, m, x, y, labelpoints,
          outfile, labfile, w, pc, err>>

(***************************************************************************)
(* Program constants.                                                      *)
(***************************************************************************)
k == 16
xmin == 300
xmax == 7750
ymin == 130
ymax == 490

(***************************************************************************)
(* Lines and their lexical forms.                                          *)
(***************************************************************************)
DataLine(px, py, pz, pad) ==
    [kind |-> "data", x |-> px, y |-> py, z |-> pz, pad |-> pad]
HeaderLine(label) ==
    [kind |-> "header", x |-> 0, y |-> 0, z |-> label, pad |-> 0]
EmptyLine == [kind |-> "blank", x |-> 0, y |-> 0, z |-> "", pad |-> 0]
CommentLine == [kind |-> "comment", x |-> 0, y |-> 0, z |-> "", pad |-> 0]
OtherLine == [kind |-> "other", x |-> 0, y |-> 0, z |-> "", pad |-> 0]

headpat(line) == line.kind = "header"
datapat(line) == line.kind = "data"

(***************************************************************************)
(* Python's conversions of the z strings the model uses.  "-" matches the  *)
(* character class of both patterns and is no number.                      *)
(***************************************************************************)
HasDot(z) == z \in {"0.75", "1.0", "1.5", "1.75", "2.25", "2.5"}
FloatOk(z) == z \in {"0.75", "1", "1.0", "1.5", "1.75", "2", "2.25", "2.5"}
FloatOf(z) ==
    CASE z = "0.75" -> 75
      [] z = "1" -> 100
      [] z = "1.0" -> 100
      [] z = "1.5" -> 150
      [] z = "1.75" -> 175
      [] z = "2" -> 200
      [] z = "2.25" -> 225
      [] z = "2.5" -> 250
      [] OTHER -> 0
IntOk(z) == z \in {"1", "2"}
IntOf(z) == IF z = "1" THEN 1 ELSE IF z = "2" THEN 2 ELSE 0

(***************************************************************************)
(* Contour and Contour.DataPoint.                                          *)
(***************************************************************************)
None == [open |-> FALSE, label |-> "", points |-> <<>>]
Contour(label) == [open |-> TRUE, label |-> label, points |-> <<>>]
DataPoint(text, px, py, pz) == [text |-> text, x |-> px, y |-> py, z |-> pz]
NoPoint == DataPoint(OtherLine, 0, 0, "")
add_point_front(c, id) == [c EXCEPT !.points = <<id>> \o @]
add_point(c, id) == [c EXCEPT !.points = Append(@, id)]
\* an equality of the position alone
PointEqXY(h, a, b) == <<h[a].x, h[a].y>> = <<h[b].x, h[b].y>>
\* an equality of the parsed fields in place of the text
PointEqValues(h, a, b) == <<h[a].x, h[a].y, h[a].z>> = <<h[b].x, h[b].y, h[b].z>>
PointEq(h, a, b) == h[a].text = h[b].text

Last(q) == q[Len(q)]

(***************************************************************************)
(* Lines 8-15: the panel coordinates come from the input file's name; a    *)
(* name the pattern does not match leaves match = None, and match.group    *)
(* raises AttributeError.                                                  *)
(***************************************************************************)
MatchFilename ==
    /\ pc = "match"
    /\ filename.match
    /\ organtech' = filename.organtech
    /\ N' = filename.N
    /\ M' = filename.M
    /\ pc' = "parse"
    /\ UNCHANGED <<filename, lines, i, contour, contours, old_contours, s,
                   heap, j, low, m, x, y, labelpoints, outfile, labfile, w,
                   err>>

\* A failed match that is ignored: the run goes on with N = M = 0.
MatchFailsIgnored ==
    /\ pc = "match"
    /\ ~filename.match
    /\ pc' = "parse"
    /\ UNCHANGED <<filename, lines, organtech, N, M, i, contour, contours,
                   old_contours, s, heap, j, low, m, x, y, labelpoints,
                   outfile, labfile, w, err>>

MatchFails ==
    /\ pc = "match"
    /\ ~filename.match
    /\ pc' = "abort"
    /\ err' = "AttributeError"
    /\ UNCHANGED <<filename, lines, organtech, N, M, i, contour, contours,
                   old_contours, s, heap, j, low, m, x, y, labelpoints,
                   outfile, labfile, w>>

(***************************************************************************)
(* Lines 41-62: one iteration of the line loop.                            *)
(***************************************************************************)
\* A header branch that keeps an open contour of the same label.
ParseHeaderKeepsOpen(line) ==
    /\ contours' = IF contour.open /\ contour.label # line.z
                   THEN Append(contours, contour)
                   ELSE contours
    /\ contour' = IF contour.open /\ contour.label = line.z
                  THEN contour
                  ELSE Contour(line.z)
    /\ heap' = heap

ParseHeader(line) ==
    /\ contours' = IF contour.open THEN Append(contours, contour)
                   ELSE contours
    /\ contour' = Contour(line.z)
    /\ heap' = heap

\* A data-line branch that never compares z with the open contour's label.
ParseDataNoSplit(line) ==
    LET c0 == IF ~contour.open THEN Contour(line.z) ELSE contour
    IN  /\ contours' = contours
        /\ heap' = [heap EXCEPT ![i] = DataPoint(line, line.x, line.y, line.z)]
        /\ contour' = add_point(c0, i)

ParseData(line) ==
    LET z == line.z
        closes == contour.open /\ contour.label # z
        c0 == IF ~contour.open \/ closes THEN Contour(z) ELSE contour
    IN  /\ contours' = IF closes THEN Append(contours, contour) ELSE contours
        /\ heap' = [heap EXCEPT ![i] = DataPoint(line, line.x, line.y, z)]
        /\ contour' = add_point(c0, i)

\* A blank-line branch that does nothing.
ParseBlankIgnored == UNCHANGED <<contour, contours, heap>>

ParseBlank ==
    /\ contours' = IF contour.open THEN Append(contours, contour)
                   ELSE contours
    /\ contour' = None
    /\ heap' = heap

\* A line loop in which a line of no known form closes the open contour.
ParseLineOtherCloses ==
    /\ pc = "parse"
    /\ i <= Len(lines)
    /\ LET line == lines[i]
       IN  IF headpat(line) THEN ParseHeader(line)
           ELSE IF datapat(line) THEN ParseData(line)
           ELSE IF line = EmptyLine \/ line = OtherLine THEN ParseBlank
           ELSE UNCHANGED <<contour, contours, heap>>
    /\ i' = i + 1
    /\ UNCHANGED <<filename, lines, organtech, N, M, old_contours, s, j,
                   low, m, x, y, labelpoints, outfile, labfile, w, pc, err>>

ParseLine ==
    /\ pc = "parse"
    /\ i <= Len(lines)
    /\ LET line == lines[i]
       IN  IF headpat(line) THEN ParseHeader(line)
           ELSE IF datapat(line) THEN ParseData(line)
           ELSE IF line = EmptyLine THEN ParseBlank
           ELSE UNCHANGED <<contour, contours, heap>>
    /\ i' = i + 1
    /\ UNCHANGED <<filename, lines, organtech, N, M, old_contours, s, j,
                   low, m, x, y, labelpoints, outfile, labfile, w, pc, err>>

(***************************************************************************)
(* Lines 63-72: close the open contour, drop the contours without points,  *)
(* and hand the list to the stitcher as old_contours.                      *)
(***************************************************************************)
\* a filter that keeps every contour
AnyContour(c) == c.open
NonEmpty(c) == Len(c.points) > 0

\* An end of input that forgets the contour still open.
ParseEndDropsOpen ==
    /\ pc = "parse"
    /\ i > Len(lines)
    /\ old_contours' = SelectSeq(contours, NonEmpty)
    /\ contours' = <<>>
    /\ s' = 1
    /\ pc' = "stitch"
    /\ UNCHANGED <<filename, lines, organtech, N, M, i, contour, heap, j,
                   low, m, x, y, labelpoints, outfile, labfile, w, err>>

ParseEnd ==
    /\ pc = "parse"
    /\ i > Len(lines)
    /\ LET all == IF contour.open THEN Append(contours, contour)
                  ELSE contours
       IN  old_contours' = SelectSeq(all, NonEmpty)
    /\ contours' = <<>>
    /\ s' = 1
    /\ pc' = "stitch"
    /\ UNCHANGED <<filename, lines, organtech, N, M, i, contour, heap, j,
                   low, m, x, y, labelpoints, outfile, labfile, w, err>>

(***************************************************************************)
(* Lines 73-93: one iteration of the outer stitching loop.  The inner loop *)
(* scans every chain of the result list: each branch ends in continue, so  *)
(* the scan goes on after a splice.  reversed() returns an iterator, and   *)
(* adding it to a list raises TypeError before cn.points is assigned.      *)
(***************************************************************************)
\* line 81 and line 85
SpliceAfterSwapped(cn, co) == co.points \o cn.points
SpliceAfter(cn, co) == cn.points \o co.points
SpliceBeforeSwapped(cn, co) == cn.points \o co.points
SpliceBefore(cn, co) == co.points \o cn.points

RECURSIVE Scan(_, _, _, _, _)
Scan(h, co, cs, n, merged) ==
    IF n > Len(cs)
    THEN [contours |-> cs, merged |-> merged, raised |-> FALSE]
    ELSE LET cn == cs[n]
         IN  IF PointEq(h, co.points[1], cn.points[1])
             THEN [contours |-> cs, merged |-> merged, raised |-> TRUE]
             ELSE IF PointEq(h, co.points[1], Last(cn.points))
             THEN Scan(h, co, [cs EXCEPT ![n].points = SpliceAfter(cn, co)],
                       n + 1, TRUE)
             ELSE IF PointEq(h, Last(co.points), cn.points[1])
             THEN Scan(h, co, [cs EXCEPT ![n].points = SpliceBefore(cn, co)],
                       n + 1, TRUE)
             ELSE IF PointEq(h, Last(co.points), Last(cn.points))
             THEN [contours |-> cs, merged |-> merged, raised |-> TRUE]
             ELSE Scan(h, co, cs, n + 1, merged)

\* A stitching step that appends the fragment whether or not it was merged.
StitchOneAlwaysAppends ==
    /\ pc = "stitch"
    /\ s <= Len(old_contours)
    /\ LET co == old_contours[s]
           r == Scan(heap, co, contours, 1, FALSE)
       IN  IF r.raised
           THEN /\ contours' = r.contours
                /\ pc' = "abort"
                /\ err' = "TypeError"
                /\ s' = s
           ELSE /\ contours' = Append(r.contours, co)
                /\ s' = s + 1
                /\ UNCHANGED <<pc, err>>
    /\ UNCHANGED <<filename, lines, organtech, N, M, i, contour,
                   old_contours, heap, j, low, m, x, y, labelpoints,
                   outfile, labfile, w>>

StitchOne ==
    /\ pc = "stitch"
    /\ s <= Len(old_contours)
    /\ LET co == old_contours[s]
           r == Scan(heap, co, contours, 1, FALSE)
       IN  IF r.raised
           THEN /\ contours' = r.contours
                /\ pc' = "abort"
                /\ err' = "TypeError"
                /\ s' = s
           ELSE /\ contours' = IF r.merged THEN r.contours
                               ELSE Append(r.contours, co)
                /\ s' = s + 1
                /\ UNCHANGED <<pc, err>>
    /\ UNCHANGED <<filename, lines, organtech, N, M, i, contour,
                   old_contours, heap, j, low, m, x, y, labelpoints,
                   outfile, labfile, w>>

(***************************************************************************)
(* Lines 96-99: the stitching loop is over; the placement loop starts with *)
(* no label and low = False.                                               *)
(***************************************************************************)
StitchEnd ==
    /\ pc = "stitch"
    /\ s > Len(old_contours)
    /\ labelpoints' = <<>>
    /\ low' = FALSE
    /\ j' = 1
    /\ pc' = "place"
    /\ UNCHANGED <<filename, lines, organtech, N, M, i, contour, contours,
                   old_contours, s, heap, m, x, y, outfile, labfile, w, err>>

(***************************************************************************)
(* Python list indexing and slicing with negative and out-of-range bounds. *)
(***************************************************************************)
Min(a, b) == IF a < b THEN a ELSE b
Max(a, b) == IF a < b THEN b ELSE a
PyIndexOk(len, n) == n < len /\ n >= 0 - len
PyIndex(len, n) == IF n < 0 THEN n + len + 1 ELSE n + 1
PyBound(len, v) == IF v < 0 THEN Max(v + len, 0) ELSE Min(v, len)
PySlice(q, a, b) == SubSeq(q, PyBound(Len(q), a) + 1, PyBound(Len(q), b))

(***************************************************************************)
(* Lines 103-106: the default index; int(float(len) * 2./3.) is the floor  *)
(* of 2*len/3 for every length the model uses.                             *)
(***************************************************************************)
Frac(len, num, den) == (len * num) \div den
DefaultMThird(len, lw) == len \div 3
DefaultM(len, lw) == IF lw THEN Frac(len, 2, 3) ELSE len \div 3

(***************************************************************************)
(* Lines 112-183: the per-panel adjustments of m.                          *)
(***************************************************************************)
CionBladderM(n, mm, z, len, m0) ==
    IF z = "1.75" THEN
         IF n = 4 /\ mm = 1 THEN Frac(len, 2, 5)
         ELSE IF n = 1 /\ mm = 2 THEN Frac(len, 14, 100)
         ELSE IF n = 2 /\ mm = 2 THEN Frac(len, 115, 1000)
         ELSE IF n = 3 /\ mm = 2 THEN Frac(len, 19, 100)
         ELSE IF n = 4 /\ mm = 2 THEN Frac(len, 19, 100)
         ELSE IF n = 1 /\ mm = 3 THEN Frac(len, 21, 100)
         ELSE IF n = 2 /\ mm = 3 THEN Frac(len, 17, 100)
         ELSE IF n \in {3, 4} /\ mm = 3 THEN Frac(len, 31, 100)
         ELSE IF n = 1 /\ mm = 4 THEN Frac(len, 2, 10)
         ELSE IF n = 2 /\ mm = 4 THEN Frac(len, 185, 1000)
         ELSE IF n = 3 /\ mm = 4 THEN Frac(len, 22, 100)
         ELSE IF n = 4 /\ mm = 4 THEN Frac(len, 43, 100)
         ELSE Frac(len, 15, 80)
    ELSE IF z = "1.5" THEN
         IF mm = 3 THEN Frac(len, 1, 2) ELSE m0
    ELSE IF z = "2" THEN
         IF mm = 4 THEN
              IF n = 1 THEN Frac(len, 165, 1000)
              ELSE IF n = 4 THEN Frac(len, 14, 100)
              ELSE Frac(len, 15, 100)
         ELSE IF n \in {1, 2} THEN Frac(len, 175, 800)
              ELSE IF n = 3 THEN Frac(len, 165, 800)
              ELSE Frac(len, 15, 80)
    ELSE m0

ProtonBladderM(n, mm, z, len, m0) ==
    IF z = "2.5" THEN
         IF mm = 1 /\ n = 2 THEN Frac(len, 8, 10)
         ELSE IF mm = 1 /\ n = 3 THEN Frac(len, 63, 100)
         ELSE IF mm = 1 /\ n = 4 THEN Frac(len, 57, 100)
         ELSE IF mm = 2 /\ n = 3 THEN Frac(len, 6, 10)
         ELSE IF mm = 2 /\ n = 4 THEN Frac(len, 43, 100)
         ELSE IF mm = 3 /\ n = 2 THEN Frac(len, 0, 10)
         ELSE IF mm = 3 /\ n = 3 THEN Frac(len, 43, 100)
         ELSE IF mm = 3 /\ n = 4 THEN Frac(len, 32, 100)
         ELSE IF mm = 4 /\ n \in {3, 4} THEN Frac(len, 32, 100)
         ELSE m0
    ELSE m0

\* float(c.points[0].z) raises ValueError on a z that is no number.
OverrideRaises(org, z) ==
    org \in {"cion_rectum", "proton_rectum"} /\ ~FloatOk(z)

OverrideM(org, n, mm, z, len, m0) ==
    IF org = "cion_bladder" THEN CionBladderM(n, mm, z, len, m0)
    ELSE IF org = "cion_rectum" THEN
         IF FloatOf(z) > 100 THEN Frac(len, 0, 10) ELSE m0
    ELSE IF org = "proton_bladder" THEN ProtonBladderM(n, mm, z, len, m0)
    ELSE IF org = "proton_rectum" THEN
         IF FloatOf(z) > 150 THEN Frac(len, 0, 10) ELSE m0
    ELSE m0

\* An override rule applies: the panel adjustment replaces the default m.
OverrideApplies(org, n, mm, z) ==
    \/ org = "cion_bladder" /\ z \in {"1.75", "2"}
    \/ org = "cion_bladder" /\ z = "1.5" /\ mm = 3
    \/ org = "cion_rectum" /\ FloatOf(z) > 100
    \/ org = "proton_rectum" /\ FloatOf(z) > 150
    \/ /\ org = "proton_bladder" /\ z = "2.5"
       /\ \/ mm = 1 /\ n \in {2, 3, 4}
          \/ mm = 2 /\ n \in {3, 4}
          \/ mm = 3 /\ n \in {2, 3, 4}
          \/ mm = 4 /\ n \in {3, 4}

(***************************************************************************)
(* Line 186: the exclusion rectangle.                                      *)
(***************************************************************************)
OutsideOrOn(px, py) == px <= xmin \/ xmax <= px \/ py <= ymin \/ ymax <= py
Outside(px, py) == px < xmin \/ xmax < px \/ py < ymin \/ ymax < py

(***************************************************************************)
(* Lines 190-192: blanking the text of the window and trimming the chain.  *)
(***************************************************************************)
Window(mm) == (mm - k)..(mm + k - 1)
WindowRaises(len, mm) == \E n \in Window(mm) : ~PyIndexOk(len, n)
\* The indices blanked before the loop ends or c.points[n] raises.
Blanked(len, mm) ==
    {n \in Window(mm) : \A n2 \in Window(mm) : n2 <= n => PyIndexOk(len, n2)}
BlankNothing(h, pts, mm) == h
BlankText(h, pts, mm) ==
    LET ids == {pts[PyIndex(Len(pts), n)] : n \in Blanked(Len(pts), mm)}
    IN  [id \in DOMAIN h |->
            IF id \in ids THEN [h[id] EXCEPT !.text = EmptyLine] ELSE h[id]]
\* A trim that drops the whole window, the anchor included.
TrimDropsAnchor(pts, mm) ==
    PySlice(pts, 0, mm - k) \o PySlice(pts, mm + k, Len(pts))
Trim(pts, mm) ==
    PySlice(pts, 0, mm - k) \o <<pts[mm + 1]>> \o PySlice(pts, mm + k, Len(pts))

(***************************************************************************)
(* Lines 100-192: one iteration of the placement loop on c = contours[j].  *)
(***************************************************************************)
EligibleAbove(c) == ~(Len(c.points) <= 2 * k + 1)
Eligible(c) == ~(Len(c.points) < 2 * k + 1)
ChainZ(c) == heap[c.points[1]].z
\* m after lines 103-183, for a chain on which the adjustments do not raise
AnchorIndex(c) ==
    OverrideM(organtech, N, M, ChainZ(c), Len(c.points),
              DefaultM(Len(c.points), low))
AnchorFirst(c) == heap[c.points[1]]
Anchor(c) == heap[c.points[AnchorIndex(c) + 1]]

PlaceSkip ==
    /\ pc = "place"
    /\ j <= Len(contours)
    /\ ~Eligible(contours[j])
    /\ j' = j + 1
    /\ UNCHANGED <<filename, lines, organtech, N, M, i, contour, contours,
                   old_contours, s, heap, low, m, x, y, labelpoints,
                   outfile, labfile, w, pc, err>>

PlaceValueError ==
    /\ pc = "place"
    /\ j <= Len(contours)
    /\ Eligible(contours[j])
    /\ OverrideRaises(organtech, ChainZ(contours[j]))
    /\ m' = DefaultM(Len(contours[j].points), low)
    /\ pc' = "abort"
    /\ err' = "ValueError"
    /\ UNCHANGED <<filename, lines, organtech, N, M, i, contour, contours,
                   old_contours, s, heap, j, low, x, y, labelpoints,
                   outfile, labfile, w>>

\* A rejection that flips low as an accepted label does.
PlaceRejectFlipsLow ==
    /\ pc = "place"
    /\ j <= Len(contours)
    /\ Eligible(contours[j])
    /\ ~OverrideRaises(organtech, ChainZ(contours[j]))
    /\ LET c == contours[j]
       IN  /\ Outside(Anchor(c).x, Anchor(c).y)
           /\ m' = AnchorIndex(c)
           /\ x' = Anchor(c).x
           /\ y' = Anchor(c).y
    /\ low' = ~low
    /\ j' = j + 1
    /\ UNCHANGED <<filename, lines, organtech, N, M, i, contour, contours,
                   old_contours, s, heap, labelpoints, outfile,
                   labfile, w, pc, err>>

PlaceReject ==
    /\ pc = "place"
    /\ j <= Len(contours)
    /\ Eligible(contours[j])
    /\ ~OverrideRaises(organtech, ChainZ(contours[j]))
    /\ LET c == contours[j]
       IN  /\ Outside(Anchor(c).x, Anchor(c).y)
           /\ m' = AnchorIndex(c)
           /\ x' = Anchor(c).x
           /\ y' = Anchor(c).y
    /\ j' = j + 1
    /\ UNCHANGED <<filename, lines, organtech, N, M, i, contour, contours,
                   old_contours, s, heap, low, labelpoints, outfile,
                   labfile, w, pc, err>>

PlaceAccept ==
    /\ pc = "place"
    /\ j <= Len(contours)
    /\ Eligible(contours[j])
    /\ ~OverrideRaises(organtech, ChainZ(contours[j]))
    /\ LET c == contours[j]
           mm == AnchorIndex(c)
       IN  /\ ~Outside(Anchor(c).x, Anchor(c).y)
           /\ ~WindowRaises(Len(c.points), mm)
           /\ m' = mm
           /\ x' = Anchor(c).x
           /\ y' = Anchor(c).y
           /\ low' = ~low
           /\ labelpoints' = Append(labelpoints, Anchor(c))
           /\ heap' = BlankText(heap, c.points, mm)
           /\ contours' = [contours EXCEPT ![j].points = Trim(c.points, mm)]
    /\ j' = j + 1
    /\ UNCHANGED <<filename, lines, organtech, N, M, i, contour,
                   old_contours, s, outfile, labfile, w, pc, err>>

\* c.points[n] raises IndexError inside the blanking loop: the label is
\* already appended, low flipped and the texts before n blanked.
PlaceIndexError ==
    /\ pc = "place"
    /\ j <= Len(contours)
    /\ Eligible(contours[j])
    /\ ~OverrideRaises(organtech, ChainZ(contours[j]))
    /\ LET c == contours[j]
           mm == AnchorIndex(c)
       IN  /\ ~Outside(Anchor(c).x, Anchor(c).y)
           /\ WindowRaises(Len(c.points), mm)
           /\ m' = mm
           /\ x' = Anchor(c).x
           /\ y' = Anchor(c).y
           /\ low' = ~low
           /\ labelpoints' = Append(labelpoints, Anchor(c))
           /\ heap' = BlankText(heap, c.points, mm)
    /\ pc' = "abort"
    /\ err' = "IndexError"
    /\ UNCHANGED <<filename, lines, organtech, N, M, i, contour, contours,
                   old_contours, s, j, outfile, labfile, w>>

PlaceEnd ==
    /\ pc = "place"
    /\ j > Len(contours)
    /\ pc' = "write_contours"
    /\ UNCHANGED <<filename, lines, organtech, N, M, i, contour, contours,
                   old_contours, s, heap, j, low, m, x, y, labelpoints,
                   outfile, labfile, w, err>>

(***************************************************************************)
(* Lines 195-200: the trimmed-contour file: per chain an empty line, then  *)
(* the text of each of its points.                                         *)
(***************************************************************************)
NoFile == [exists |-> FALSE, lines |-> <<>>]
Block(c, h) == <<EmptyLine>> \o [n \in 1..Len(c.points) |-> h[c.points[n]].text]
RECURSIVE Blocks(_, _)
Blocks(cs, h) ==
    IF cs = <<>> THEN <<>> ELSE Block(Head(cs), h) \o Blocks(Tail(cs), h)

WriteContours ==
    /\ pc = "write_contours"
    /\ outfile' = [exists |-> TRUE, lines |-> Blocks(contours, heap)]
    /\ pc' = "open_labels"
    /\ UNCHANGED <<filename, lines, organtech, N, M, i, contour, contours,
                   old_contours, s, heap, j, low, m, x, y, labelpoints,
                   labfile, w, err>>

(***************************************************************************)
(* Lines 202-203: the label file is created empty.                         *)
(***************************************************************************)
OpenLabels ==
    /\ pc = "open_labels"
    /\ labfile' = [exists |-> TRUE, lines |-> <<>>]
    /\ w' = 1
    /\ pc' = "write_labels"
    /\ UNCHANGED <<filename, lines, organtech, N, M, i, contour, contours,
                   old_contours, s, heap, j, low, m, x, y, labelpoints,
                   outfile, err>>

(***************************************************************************)
(* Lines 204-249: one label.  The format strings lay the three fields out  *)
(* with two spaces (pad = TwoSpaces); {2:.1f} renders float("1") as "1.0". *)
(***************************************************************************)
TwoSpaces == -1
Format(px, py, pz) == DataLine(px, py, pz, TwoSpaces)
\* "{:.1f}".format(float(z))
OneDecimal(z) ==
    CASE z = "0.75" -> "0.8"
      [] z = "1" -> "1.0"
      [] z = "1.75" -> "1.8"
      [] z = "2" -> "2.0"
      [] z = "2.25" -> "2.2"
      [] OTHER -> z

\* line 206: int(p.z) raises ValueError on a z without '.' that is no integer
LabelRaises(p) == ~HasDot(p.z) /\ ~IntOk(p.z)

\* lines 206-207
\* a reformatting of every z without decimal point
ForceDecimalAll(p) ==
    IF ~HasDot(p.z)
    THEN [p EXCEPT !.text = Format(p.x, p.y, OneDecimal(p.z))]
    ELSE p

ForceDecimal(p) ==
    IF ~HasDot(p.z) /\ IntOf(p.z) = 1
    THEN [p EXCEPT !.text = Format(p.x, p.y, OneDecimal(p.z))]
    ELSE p

\* lines 209-248
CionBladderText(p, n, mm) ==
    IF p.z = "1.75" /\ mm = 2 /\ n = 1 THEN Format(p.x - 50, p.y, p.z)
    ELSE IF p.z = "1.75" /\ mm = 2 /\ n = 2 THEN Format(p.x - 75, p.y, p.z)
    ELSE IF p.z = "1.75" /\ mm = 2 /\ n \in {3, 4}
         THEN Format(p.x - 100, p.y, p.z)
    ELSE p.text

CionRectumText(p, n, mm) ==
    LET t1 == IF p.z = "0.75" /\ mm = 2 THEN Format(p.x + 100, p.y, p.z)
              ELSE p.text
    IN  IF p.z = "0.75" /\ mm \in {3, 4} THEN Format(p.x + 150, p.y, p.z)
        ELSE IF p.z = "1" THEN Format(p.x + 100, p.y, OneDecimal(p.z))
        ELSE t1

ProtonBladderText(p, n, mm) ==
    IF p.z = "2.5" /\ mm = 1 /\ n = 2 THEN Format(p.x + 180, p.y, p.z)
    ELSE IF p.z = "2.5" /\ mm = 1 /\ n = 3 THEN Format(p.x + 120, p.y, p.z)
    ELSE IF p.z = "2.5" /\ mm = 1 /\ n = 4 THEN Format(p.x + 100, p.y, p.z)
    ELSE IF p.z = "2.5" /\ mm = 2 /\ n = 3 THEN Format(p.x + 140, p.y, p.z)
    ELSE IF p.z = "2.5" /\ mm = 2 /\ n = 4 THEN Format(p.x + 100, p.y, p.z)
    ELSE IF p.z = "2.5" /\ mm = 3 /\ n = 3 THEN Format(p.x + 150, p.y, p.z)
    ELSE IF p.z = "2.5" /\ mm = 3 /\ n = 4 THEN Format(p.x + 80, p.y, p.z)
    ELSE IF p.z = "2.5" /\ mm = 4 /\ n \in {1}
         THEN Format(p.x + 240, p.y, p.z)
    ELSE IF p.z = "2.5" /\ mm = 4 /\ n \in {2, 3}
         THEN Format(p.x + 150, p.y, p.z)
    ELSE IF p.z = "2.25" /\ mm = 1 THEN Format(p.x + 100, p.y, p.z)
    ELSE IF p.z = "2.25" /\ mm = 2 /\ n = 4 THEN Format(p.x + 100, p.y, p.z)
    ELSE p.text

ProtonRectumText(p, n, mm) ==
    IF p.z = "1.5" THEN Format(p.x + 100, p.y, p.z) ELSE p.text

LabelText(p0, org, n, mm) ==
    LET p == ForceDecimal(p0)
    IN  IF org = "cion_bladder" THEN CionBladderText(p, n, mm)
        ELSE IF org = "cion_rectum" THEN CionRectumText(p, n, mm)
        ELSE IF org = "proton_bladder" THEN ProtonBladderText(p, n, mm)
        ELSE IF org = "proton_rectum" THEN ProtonRectumText(p, n, mm)
        ELSE p.text

WriteLabel ==
    /\ pc = "write_labels"
    /\ w <= Len(labelpoints)
    /\ ~LabelRaises(labelpoints[w])
    /\ LET text == LabelText(labelpoints[w], organtech, N, M)
       IN  /\ labelpoints' = [labelpoints EXCEPT ![w].text = text]
           /\ labfile' = [labfile EXCEPT !.lines = Append(@, text)]
    /\ w' = w + 1
    /\ UNCHANGED <<filename, lines, organtech, N, M, i, contour, contours,
                   old_contours, s, heap, j, low, m, x, y, outfile, pc, err>>

\* the with statement closes the label file, keeping the lines written so far
WriteLabelValueError ==
    /\ pc = "write_labels"
    /\ w <= Len(labelpoints)
    /\ LabelRaises(labelpoints[w])
    /\ pc' = "abort"
    /\ err' = "ValueError"
    /\ UNCHANGED <<filename, lines, organtech, N, M, i, contour, contours,
                   old_contours, s, heap, j, low, m, x, y, labelpoints,
                   outfile, labfile, w>>

Finish ==
    /\ pc = "write_labels"
    /\ w > Len(labelpoints)
    /\ pc' = "done"
    /\ UNCHANGED <<filename, lines, organtech, N, M, i, contour, contours,
                   old_contours, s, heap, j, low, m, x, y, labelpoints,
                   outfile, labfile, w, err>>

Next ==
    \/ MatchFilename
    \/ MatchFails
    \/ ParseLine
    \/ ParseEnd
    \/ StitchOne
    \/ StitchEnd
    \/ PlaceSkip
    \/ PlaceValueError
    \/ PlaceReject
    \/ PlaceAccept
    \/ PlaceIndexError
    \/ PlaceEnd
    \/ WriteContours
    \/ OpenLabels
    \/ WriteLabel
    \/ WriteLabelValueError
    \/ Finish

(***************************************************************************)
(* The inputs: the name of the input file as the pattern of line 12 sees   *)
(* it, and the lines of the file.                                          *)
(***************************************************************************)
MaxLines == 3
MaxFrags == 3
MaxChains == 3

FileName(org, n, mm) == [match |-> TRUE, organtech |-> org, N |-> n, M |-> mm]
NoMatchName == [match |-> FALSE, organtech |-> "", N |-> 0, M |-> 0]
PlainName == FileName("other", 1, 1)

RECURSIVE Flatten(_)
Flatten(qs) == IF qs = <<>> THEN <<>> ELSE Head(qs) \o Flatten(Tail(qs))

\* a point shared by fragments: the same text wherever it is written
SharedPoint(q, z) == DataLine(5000 + q, 300, z, 0)

\* The data lines of fragment number f: len points along x at height ay,
\* the point of index len \div 3 at x = ax; hd and tl replace the first and
\* the last point by a shared point (0: none).
FragmentLines(f, len, z, ax, ay, hd, tl) ==
    [n \in 1..len |->
        IF n = 1 /\ hd # 0 THEN SharedPoint(hd, z)
        ELSE IF n = len /\ tl # 0 THEN SharedPoint(tl, z)
        ELSE DataLine(ax + (n - 1) - (len \div 3), ay, z, f)]

\* 1. Short files over a small alphabet of lines of every lexical form.
Alphabet ==
    {HeaderLine("1"), HeaderLine("1.5"), EmptyLine, CommentLine, OtherLine,
     SharedPoint(1, "1"), SharedPoint(2, "1"), SharedPoint(1, "1.5")}
LineFiles == UNION {[1..n -> Alphabet] : n \in 0..MaxLines}

\* 2. Files of up to MaxFrags two-point fragments of one z level, separated
\*    by empty lines, whose end points may be the shared points 1 and 2.
FragSpecs == [hd : 0..2, tl : 0..2]
StitchFile(fs) ==
    Flatten([f \in 1..Len(fs) |->
        <<EmptyLine>> \o
        FragmentLines(f, 2, "1.5", 4000, 300, fs[f].hd, fs[f].tl)])
StitchFiles ==
    {StitchFile(fs) : fs \in UNION {[1..n -> FragSpecs] : n \in 1..MaxFrags}}

\* 3. Files of up to MaxChains long fragments, each under its own header,
\*    around the length threshold 2k+1, anchored inside the exclusion
\*    rectangle or just below it.
ChainLens == {2 * k, 2 * k + 1, 3 * k}
ChainSpecs == [len : ChainLens, ay : {ymin - 1, ymin}]
ChainFile(cs, z) ==
    Flatten([f \in 1..Len(cs) |->
        <<HeaderLine(z)>> \o
        FragmentLines(f, cs[f].len, z, 4000, cs[f].ay, 0, 0)])
ChainFiles ==
    {ChainFile(cs, "1.5") :
        cs \in UNION {[1..n -> ChainSpecs] : n \in 1..MaxChains}}

\* 4. Files of one long fragment under a header: every length, z level and
\*    anchor position on and next to the sides of the exclusion rectangle.
ExampleLen == 40
OneLens == ChainLens \cup {ExampleLen}
Corners ==
    {<<4000, 300>>, <<xmin - 1, 300>>, <<xmin, 300>>, <<xmax, 300>>,
     <<xmax + 1, 300>>, <<4000, ymin - 1>>, <<4000, ymin>>, <<4000, ymax>>,
     <<4000, ymax + 1>>}
OneFiles(zs) ==
    {<<HeaderLine(z)>> \o FragmentLines(1, len, z, a[1], a[2], 0, 0) :
        len \in OneLens, z \in zs, a \in Corners}
PanelNames ==
    {PlainName, FileName("cion_rectum", 1, 2), FileName("cion_bladder", 2, 3),
     FileName("proton_bladder", 2, 1), FileName("proton_rectum", 1, 1)}

\* 5. Files of three fragments A, B, X where X starts at A's last point and
\*    ends at B's first point, so that X is spliced twice; A and X together
\*    reach the length threshold or exceed it.
BridgeFile(alen, ay) ==
    <<EmptyLine>> \o FragmentLines(1, alen, "1.5", 4000, ay, 0, 1)
    \o <<EmptyLine>> \o FragmentLines(2, 2, "1.5", 4500, ay, 2, 0)
    \o <<EmptyLine>> \o FragmentLines(3, 3, "1.5", 4600, ay, 1, 2)
BridgeFiles ==
    {BridgeFile(alen, ay) : alen \in {2 * k - 2, 3 * k}, ay \in {ymin - 1, ymin}}

\* Three fragments A, B, X: X's tail is A's head and X's head is B's tail,
\* so X is spliced in front of A and behind B.
AliasFile(alen, blen, xlen, ay) ==
    FragmentLines(1, alen, "1.5", 6000, ay, 1, 0)
    \o <<EmptyLine>> \o FragmentLines(2, blen, "1.5", 7000, ay, 0, 2)
    \o <<EmptyLine>> \o FragmentLines(3, xlen, "1.5", 4000, ay, 2, 1)
AliasFiles ==
    {AliasFile(7, k + 4, 2 * k - 6, ay) : ay \in {ymin - 1, ymin}}

\* Two fragments; the first holds the shared point written with layout p1,
\* as its last point or (mid) as its last but one, the second starts with
\* the same point written with layout p2.
PaddedPoint(q, z, pad) == [SharedPoint(q, z) EXCEPT !.pad = pad]
TextFile(p1, p2, mid) ==
    <<DataLine(4000, 300, "1.5", 1), PaddedPoint(1, "1.5", p1)>>
    \o (IF mid THEN <<DataLine(4001, 300, "1.5", 1)>> ELSE <<>>)
    \o <<EmptyLine, PaddedPoint(1, "1.5", p2), DataLine(4500, 300, "1.5", 2)>>
TextFiles == {TextFile(p1, p2, mid) : p1 \in 0..1, p2 \in 0..1, mid \in BOOLEAN}

Inputs ==
    {[filename |-> fn, lines |-> ls] :
        fn \in {PlainName, NoMatchName}, ls \in LineFiles}
    \cup {[filename |-> PlainName, lines |-> ls] : ls \in StitchFiles}
    \cup {[filename |-> PlainName, lines |-> ls] : ls \in ChainFiles}
    \cup {[filename |-> PlainName, lines |-> ls] : ls \in BridgeFiles}
    \cup {[filename |-> PlainName, lines |-> ls] : ls \in AliasFiles}
    \cup {[filename |-> PlainName, lines |-> ls] : ls \in TextFiles}
    \cup {[filename |-> fn, lines |-> ls] :
            fn \in PanelNames, ls \in OneFiles({"1", "1.5", "2", "2.5", "-"})}

Init ==
    /\ \E inp \in Inputs :
          /\ filename = inp.filename
          /\ lines = inp.lines
          /\ heap = [id \in 1..Len(inp.lines) |-> NoPoint]
    /\ organtech = ""
    /\ N = 0
    /\ M = 0
    /\ i = 1
    /\ contour = None
    /\ contours = <<>>
    /\ old_contours = <<>>
    /\ s = 1
    /\ j = 1
    /\ low = FALSE
    /\ m = 0
    /\ x = 0
    /\ y = 0
    /\ labelpoints = <<>>
    /\ outfile = NoFile
    /\ labfile = NoFile
    /\ w = 1
    /\ pc = "match"
    /\ err = ""

Spec == Init /\ [][Next]_vars

(***************************************************************************)
(* Properties.                                                             *)
(***************************************************************************)
Texts(c) == [n \in 1..Len(c.points) |-> heap[c.points[n]].text]
HeadText(c) == heap[c.points[1]].text
TailText(c) == heap[Last(c.points)].text
Stitched == pc = "place" /\ j = 1

\* The parsed fragments are A (tail P), B (head P, tail Q), C (head Q), in
\* this order, and no other two of their end points are equal.
FragmentsABC ==
    /\ Len(old_contours) = 3
    /\ LET A == old_contours[1]
           B == old_contours[2]
           C == old_contours[3]
       IN  /\ TailText(A) = HeadText(B)
           /\ TailText(B) = HeadText(C)
           /\ Cardinality({HeadText(A), TailText(A), TailText(B),
                           TailText(C)}) = 4

\* C1 as stated: stitching A, B, C yields exactly one chain with A's, B's
\* and C's points in order, each splice point P and Q appearing once.
C1_Original ==
    (Stitched /\ FragmentsABC) =>
        /\ Len(contours) = 1
        /\ Texts(contours[1]) =
              Texts(old_contours[1]) \o Tail(Texts(old_contours[2]))
                  \o Tail(Texts(old_contours[3]))

\* C1 amended: stitching A, B, C yields exactly one chain, which is all of
\* A's points, then all of B's, then all of C's, in their original order:
\* each splice point is kept from both fragments and so appears twice.
C1_StitchOrdering ==
    (Stitched /\ FragmentsABC) =>
        /\ Len(contours) = 1
        /\ contours[1].points =
              old_contours[1].points \o old_contours[2].points
                  \o old_contours[3].points
        /\ Texts(contours[1]) =
              Texts(old_contours[1]) \o Texts(old_contours[2])
                  \o Texts(old_contours[3])

C1_Witness == Stitched /\ FragmentsABC /\ Len(contours) = 1

\* The placement loop is about to process chain c = contours[j].
AtChain == pc = "place" /\ j <= Len(contours)
\* No panel adjustment touches the chain: m stays the default index.
NoOverride(c) ==
    /\ ~OverrideApplies(organtech, N, M, ChainZ(c))
    /\ ~OverrideRaises(organtech, ChainZ(c))
InsideOrOn(p) == xmin <= p.x /\ p.x <= xmax /\ ymin <= p.y /\ p.y <= ymax
IsEmpty(line) == line = EmptyLine
NotEmpty(line) == line # EmptyLine

\* C2 as stated: with numeric x and y and no override rule, the placement
\* loop never raises, whatever the chain lengths and the low flag.
C2_Original ==
    (pc = "abort" /\ err = "IndexError") => ~NoOverride(contours[j])

\* The input of the end-to-end example: one header "1.5" followed by
\* ExampleLen data lines of z = "1.5", no override, the anchor of index
\* ExampleLen \div 3 inside the rectangle.
ExampleRun ==
    /\ Len(lines) = ExampleLen + 1
    /\ lines[1] = HeaderLine("1.5")
    /\ \A n \in 2..Len(lines) : datapat(lines[n]) /\ lines[n].z = "1.5"
    /\ filename.match
    /\ ~OverrideApplies(filename.organtech, filename.N, filename.M, "1.5")
    /\ InsideOrOn(lines[2 + ExampleLen \div 3])
\* the indices (from 0) of a chain of len points that survive the removal of
\* [mm-k, mm+k) except mm, as object numbers of the example's points
Survivors(len, mm) ==
    LET keep(n) == n = mm \/ n < mm - k \/ n >= mm + k
        F[n \in 0..len] ==
            IF n = 0 THEN <<>>
            ELSE IF keep(n - 1) THEN Append(F[n - 1], n + 1) ELSE F[n - 1]
    IN  F[len]

\* C3 as stated: the example yields one label line, the anchor index
\* m = floor(ExampleLen/3) = 13, and the chain with the points of
\* [m-k, m+k) removed except the anchor.
C3_Original ==
    (ExampleRun /\ pc = "done") =>
        /\ Len(labfile.lines) = 1
        /\ m = 13
        /\ contours[1].points = Survivors(ExampleLen, m)
        /\ Len(outfile.lines) = 1 + Len(Survivors(ExampleLen, m))

\* C4 as stated: an override index outside [k, len-k) on an eligible chain
\* aborts the run at once: nothing blanked or removed, no label recorded.
C4_Original ==
    [][(/\ AtChain
        /\ Eligible(contours[j])
        /\ OverrideApplies(organtech, N, M, ChainZ(contours[j]))
        /\ ~OverrideRaises(organtech, ChainZ(contours[j]))
        /\ AnchorIndex(contours[j])
              \notin k..(Len(contours[j].points) - k - 1))
       => (/\ pc' = "abort"
           /\ labelpoints' = labelpoints
           /\ heap' = heap
           /\ contours' = contours)]_vars

\* where the block of chain q starts in the trimmed-contour file
RECURSIVE BlockStart(_)
BlockStart(q) ==
    IF q = 1 THEN 0 ELSE BlockStart(q - 1) + 1 + Len(contours[q - 1].points)
Written == pc \in {"open_labels", "write_labels", "done"}

\* C5 as stated: every line inside a chain's block is the source text of a
\* point still in the chain; a block never contains an empty line.
C5_Original ==
    Written =>
        \A q \in 1..Len(contours) : \A n \in 1..Len(contours[q].points) :
            outfile.lines[BlockStart(q) + 1 + n] = lines[contours[q].points[n]]

\* C5 amended: the file is one block per chain, an empty line followed by
\* one line per point of the trimmed chain in order; each such line is the
\* byte-identical source line of that point or, when the point's text was
\* blanked, an empty line; the anchor a trim retains is blanked, so the
\* block of every labelled chain holds an empty line.
C5_BlockLines ==
    Written =>
        /\ Len(outfile.lines) = BlockStart(Len(contours) + 1)
        /\ \A q \in 1..Len(contours) :
              /\ outfile.lines[BlockStart(q) + 1] = EmptyLine
              /\ \A n \in 1..Len(contours[q].points) :
                    outfile.lines[BlockStart(q) + 1 + n]
                        \in {lines[contours[q].points[n]], EmptyLine}
        /\ Len(SelectSeq(outfile.lines, IsEmpty))
              >= Len(contours) + Len(labelpoints)

C5_Witness ==
    /\ pc = "done"
    /\ Len(labelpoints) = 1
    /\ Len(contours) = 1
    /\ Len(contours[1].points) = 3 * k - 2 * k + 1
    /\ Len(SelectSeq(outfile.lines, IsEmpty)) = 2

\* C6 as stated: a run that aborts has created neither output file.
C6_Original ==
    pc = "abort" => ~outfile.exists /\ ~labfile.exists

\* C7: on an eligible chain without override the anchor index is
\* floor(len/3) when an even number of labels was accepted before it and
\* floor(2*len/3) when an odd number was: 1/3, 2/3, 1/3, ... over chains
\* that are all accepted.
C7_Alternation ==
    [][(AtChain /\ Eligible(contours[j]) /\ NoOverride(contours[j]))
       => m' = IF Len(labelpoints) % 2 = 0
               THEN Len(contours[j].points) \div 3
               ELSE (2 * Len(contours[j].points)) \div 3]_vars

C7_Witness ==
    /\ pc = "place"
    /\ j = 4
    /\ Len(labelpoints) = 3
    /\ low
    /\ m = Len(old_contours[3].points) \div 3

\* C8: a chain of fewer than 2k+1 points is skipped with no label, no
\* point blanked or removed and low unchanged; a chain of exactly 2k+1
\* points without override whose anchor is inside the rectangle gets a label.
C8_Threshold ==
    [][AtChain =>
        LET c == contours[j]
        IN  /\ Len(c.points) < 2 * k + 1 =>
                  /\ labelpoints' = labelpoints
                  /\ heap' = heap
                  /\ contours' = contours
                  /\ low' = low
                  /\ pc' = "place"
            /\ (/\ Len(c.points) = 2 * k + 1
                /\ NoOverride(c)
                /\ InsideOrOn(heap[c.points[DefaultM(2 * k + 1, low) + 1]]))
               => /\ Len(labelpoints') = Len(labelpoints) + 1
                  /\ labelpoints'[Len(labelpoints')].text
                        = lines[c.points[DefaultM(2 * k + 1, low) + 1]]]_vars

C8_Witness ==
    /\ pc = "place"
    /\ j = 3
    /\ Len(old_contours[1].points) = 2 * k
    /\ Len(contours[1].points) = 2 * k
    /\ Len(old_contours[2].points) = 2 * k + 1
    /\ Len(labelpoints) = 1

\* no two parsed fragments have an end point in common
NoSharedEndpoints ==
    \A a, b \in 1..Len(old_contours) :
        a # b =>
            {lines[old_contours[a].points[1]],
             lines[Last(old_contours[a].points)]}
              \cap {lines[old_contours[b].points[1]],
                    lines[Last(old_contours[b].points)]} = {}
AllShort ==
    \A a \in 1..Len(old_contours) : Len(old_contours[a].points) < 2 * k + 1

\* C9: when the fragments share no end points and all are shorter than
\* 2k+1, the point lines of the trimmed-contour file are the data lines of
\* the input, in order, and no label is written.
C9_RoundTrip ==
    (pc = "done" /\ NoSharedEndpoints /\ AllShort) =>
        /\ SelectSeq(outfile.lines, NotEmpty) = SelectSeq(lines, datapat)
        /\ labfile.lines = <<>>

C9_Witness ==
    /\ pc = "done"
    /\ NoSharedEndpoints
    /\ AllShort
    /\ Len(old_contours) = 3
    /\ Len(SelectSeq(lines, datapat)) = 6

\* C10: an anchor on a side of the exclusion rectangle (x = xmin, x = xmax,
\* y = ymin, y = ymax) or within it is labelled; an anchor strictly outside
\* is rejected: no label, nothing blanked or removed, low unchanged.
C10_Boundary ==
    [][(AtChain /\ Eligible(contours[j])
        /\ ~OverrideRaises(organtech, ChainZ(contours[j])))
       => LET a == Anchor(contours[j])
          IN  /\ InsideOrOn(a) =>
                    /\ Len(labelpoints') = Len(labelpoints) + 1
                    /\ labelpoints'[Len(labelpoints')].x = a.x
                    /\ labelpoints'[Len(labelpoints')].y = a.y
              /\ ~InsideOrOn(a) =>
                    /\ labelpoints' = labelpoints
                    /\ heap' = heap
                    /\ contours' = contours
                    /\ low' = low]_vars

C10_Witness ==
    /\ pc = "place"
    /\ j = 2
    /\ x = xmin
    /\ Len(labelpoints) = 1
    /\ labelpoints[1].x = xmin

\* The chain the placement loop is at is accepted: long enough, the panel
\* adjustment does not raise, and its anchor is not outside the rectangle.
Accepted(c) ==
    /\ Len(c.points) >= 2 * k + 1
    /\ ~OverrideRaises(organtech, ChainZ(c))
    /\ InsideOrOn(heap[c.points[AnchorIndex(c) + 1]])

\* C11: a step of the placement loop records one label, a copy of the
\* anchor, when the chain is accepted and none otherwise; the chains are
\* visited once each in list order; no other step changes the number of
\* labels; the label loop writes one line per recorded label in that
\* order, so a completed run's label file has one line per accepted chain.
C11_LabelLines ==
    [][/\ AtChain =>
            /\ labelpoints' =
                  IF Accepted(contours[j])
                  THEN Append(labelpoints,
                              heap[contours[j].points[AnchorIndex(contours[j]) + 1]])
                  ELSE labelpoints
            /\ pc' = "place" => j' = j + 1
       /\ (~AtChain /\ pc # "stitch") =>
            Len(labelpoints') = Len(labelpoints)
       /\ (pc = "write_labels" /\ pc' = "write_labels") =>
            /\ w' = w + 1
            /\ labfile'.lines = Append(labfile.lines, labelpoints'[w].text)
            /\ labelpoints'[w].x = labelpoints[w].x
            /\ labelpoints'[w].y = labelpoints[w].y
            /\ labelpoints'[w].z = labelpoints[w].z
       /\ pc' = "done" =>
            /\ Len(labfile'.lines) = Len(labelpoints')
            /\ w' = Len(labelpoints') + 1]_vars

\* three chains, the second one without label: two label lines, in order
C11_Witness ==
    /\ pc = "done"
    /\ Len(contours) = 3
    /\ Len(labfile.lines) = 2
    /\ labfile.lines[1].pad = 1
    /\ labfile.lines[2].pad = 3

\* No point of chain q has the coordinates of a recorded label: the chain
\* holds no anchor, it was skipped or rejected.
Unlabelled(q) ==
    \A n \in 1..Len(contours[q].points) : \A l \in 1..Len(labelpoints) :
        LET p == heap[contours[q].points[n]]
        IN  <<p.x, p.y, p.z>> #
                <<labelpoints[l].x, labelpoints[l].y, labelpoints[l].z>>

\* C12 as stated: the trimmed-contour file holds one block per chain, in
\* chain order, and the block of an unlabelled chain holds all its points.
C12_Original ==
    Written =>
        /\ Len(outfile.lines) = BlockStart(Len(contours) + 1)
        /\ \A q \in 1..Len(contours) :
              /\ outfile.lines[BlockStart(q) + 1] = EmptyLine
              /\ Unlabelled(q) =>
                    \A n \in 1..Len(contours[q].points) :
                        outfile.lines[BlockStart(q) + 1 + n]
                            = lines[contours[q].points[n]]

\* C13: a file name that does not carry the panel coordinates aborts the run
\* at the match: no line is parsed, no chain is built, no label is placed
\* and neither output file is created.
C13_MissingCoordinates ==
    ~filename.match =>
        /\ pc \in {"match", "abort"}
        /\ pc = "abort" => err = "AttributeError"
        /\ i = 1
        /\ contour = None
        /\ contours = <<>>
        /\ old_contours = <<>>
        /\ \A id \in DOMAIN heap : heap[id] = NoPoint
        /\ j = 1
        /\ labelpoints = <<>>
        /\ outfile = NoFile
        /\ labfile = NoFile

\* the run has aborted on a file that holds data lines
C13_Witness ==
    /\ ~filename.match
    /\ pc = "abort"
    /\ \E n \in 1..Len(lines) : datapat(lines[n])

\* A step of the stitching loop: one fragment co is taken from old_contours.
AtFragment == pc = "stitch" /\ s <= Len(old_contours)

\* The chains of a chain list that hold the DataPoint object id.
Holders(cs, id) ==
    {q \in 1..Len(cs) : \E n \in 1..Len(cs[q].points) : cs[q].points[n] = id}

\* C14 as stated: a step of the stitching loop changes at most one chain, and
\* afterwards the fragment's points are in exactly one chain.
C14_Original ==
    [][(AtFragment /\ pc' = "stitch") =>
          /\ \A a, b \in 1..Len(contours) :
                 a # b => (contours'[a] = contours[a] \/ contours'[b] = contours[b])
          /\ \A n \in 1..Len(old_contours[s].points) :
                 Cardinality(Holders(contours', old_contours[s].points[n])) = 1
      ]_vars

\* The four adjacency cases of lines 76-91, in the order the code tests them.
HeadHead(co, cn) == PointEq(heap, co.points[1], cn.points[1])
HeadTail(co, cn) == ~HeadHead(co, cn) /\ PointEq(heap, co.points[1], Last(cn.points))
TailHead(co, cn) ==
    /\ ~HeadHead(co, cn)
    /\ ~PointEq(heap, co.points[1], Last(cn.points))
    /\ PointEq(heap, Last(co.points), cn.points[1])
TailTail(co, cn) ==
    /\ ~HeadHead(co, cn)
    /\ ~PointEq(heap, co.points[1], Last(cn.points))
    /\ ~PointEq(heap, Last(co.points), cn.points[1])
    /\ PointEq(heap, Last(co.points), Last(cn.points))

Reverse(q) == [n \in 1..Len(q) |-> q[Len(q) + 1 - n]]

\* C15 as stated: a fragment whose head equals a chain's head is spliced
\* reversed in front of the chain, one whose tail equals the chain's tail is
\* spliced reversed behind it, and the stitching goes on.
C15_Original ==
    [][AtFragment =>
          \A n \in 1..Len(contours) :
              LET co == old_contours[s]
                  cn == contours[n]
              IN  /\ HeadHead(co, cn) =>
                        /\ pc' = "stitch"
                        /\ contours'[n].points = Reverse(co.points) \o cn.points
                  /\ TailTail(co, cn) =>
                        /\ pc' = "stitch"
                        /\ contours'[n].points = cn.points \o Reverse(co.points)
      ]_vars

\* C16 as stated: for a chain of at least 2k+1 points that no panel
\* adjustment touches, the default anchor index m has k <= m and
\* m + k <= len, so the window [m-k, m+k) holds only indices of the chain.
C16_Original ==
    (AtChain /\ Eligible(contours[j]) /\ NoOverride(contours[j])) =>
        LET len == Len(contours[j].points)
            mm == AnchorIndex(contours[j])
        IN  /\ mm = DefaultM(len, low)
            /\ k <= mm
            /\ mm + k <= len
            /\ Window(mm) \subseteq 0..(len - 1)

\* C17: when a label is accepted at index m of a chain of len points with
\* k <= m <= len - k, the chain becomes points[0:m-k], points[m],
\* points[m+k:]: len - 2k + 1 points, the anchor among them, the rest of the
\* window gone, the remaining points in their former order; the other
\* chains keep their points.
C17_Trim ==
    [][(/\ AtChain
        /\ pc' = "place"
        /\ Len(labelpoints') = Len(labelpoints) + 1
        /\ k <= m'
        /\ m' <= Len(contours[j].points) - k) =>
          LET pts == contours[j].points
              len == Len(pts)
              new == contours'[j].points
              keep(n) == n <= m' - k \/ n = m' + 1 \/ n > m' + k
              kept == SelectSeq([n \in 1..len |-> n], keep)
          IN  /\ new = SubSeq(pts, 1, m' - k) \o <<pts[m' + 1]>>
                          \o SubSeq(pts, m' + k + 1, len)
              /\ Len(new) = len - 2 * k + 1
              /\ new[m' - k + 1] = pts[m' + 1]
              /\ new = [q \in 1..Len(kept) |-> pts[kept[q]]]
              /\ \A q \in 1..Len(contours) :
                     q # j => contours'[q] = contours[q]
      ]_vars

\* a chain of 3k points was labelled at m = k: 3k - 2k + 1 points are left
C17_Witness ==
    /\ pc = "place"
    /\ j = 2
    /\ Len(labelpoints) = 1
    /\ m = k
    /\ Len(contours[1].points) = k + 1
    /\ heap[contours[1].points[1]].text = EmptyLine

\* The chain the placement loop is at is skipped for length, or its anchor
\* lies outside the rectangle.
SkippedOrRejected ==
    /\ AtChain
    /\ \/ ~Eligible(contours[j])
       \/ /\ ~OverrideRaises(organtech, ChainZ(contours[j]))
          /\ ~InsideOrOn(Anchor(contours[j]))

\* C18: a skipped or rejected chain leaves low, the point texts, the chains
\* and the labels as they were and the loop moves to the next chain; low
\* changes only in a step that records a label.
C18_SkipFrame ==
    [][/\ SkippedOrRejected =>
              /\ low' = low
              /\ heap' = heap
              /\ contours' = contours
              /\ labelpoints' = labelpoints
              /\ pc' = "place"
              /\ j' = j + 1
       /\ low' # low =>
              /\ AtChain
              /\ Len(labelpoints') = Len(labelpoints) + 1
      ]_vars

\* the first chain was rejected with no point blanked, the second one, of
\* 3k points, was then labelled at the low = False index 3k div 3 = k
C18_Witness ==
    /\ pc = "place"
    /\ j = 3
    /\ Len(contours[1].points) >= 2 * k + 1
    /\ heap[contours[1].points[1]].y = ymin - 1
    /\ \A n \in 1..Len(contours[1].points) :
           heap[contours[1].points[n]].text # EmptyLine
    /\ Len(labelpoints) = 1
    /\ labelpoints[1].y = ymin
    /\ m = k
    /\ Len(contours[2].points) = k + 1
    /\ low

\* The scan of the result list for the fragment co reaches chain n: no
\* earlier chain has ended the scan.
Reached(co, n) ==
    \A q \in 1..(n - 1) : ~HeadHead(co, contours[q]) /\ ~TailTail(co, contours[q])

\* C19: a fragment whose head equals the tail of chain cn is spliced behind
\* it (cn + co), one whose tail equals cn's head in front of it (co + cn),
\* the cases taken in the order the code tests them; both point sequences
\* keep their order, and the chain keeps its label and its place in the
\* result list.
C19_NonReversing ==
    [][AtFragment =>
          \A n \in 1..Len(contours) :
              LET co == old_contours[s]
                  cn == contours[n]
              IN  Reached(co, n) =>
                    /\ Len(contours') >= n
                    /\ HeadTail(co, cn) =>
                          contours'[n] = [cn EXCEPT !.points = cn.points \o co.points]
                    /\ TailHead(co, cn) =>
                          contours'[n] = [cn EXCEPT !.points = co.points \o cn.points]
      ]_vars

\* the second fragment's tail met the head of the first: one chain, the
\* second fragment's points in front
C19_Witness ==
    /\ pc = "stitch"
    /\ s = 3
    /\ Len(contours) = 1
    /\ Len(old_contours[1].points) = 2
    /\ Len(old_contours[2].points) = 2
    /\ heap[old_contours[2].points[1]].text # heap[old_contours[1].points[2]].text
    /\ contours[1].points = old_contours[2].points \o old_contours[1].points

\* No endpoint of the fragment co equals the head or the tail of a chain.
NoMatch(co) ==
    \A n \in 1..Len(contours) :
        /\ ~PointEq(heap, co.points[1], contours[n].points[1])
        /\ ~PointEq(heap, co.points[1], Last(contours[n].points))
        /\ ~PointEq(heap, Last(co.points), contours[n].points[1])
        /\ ~PointEq(heap, Last(co.points), Last(contours[n].points))

\* C20: a fragment that matches no chain is appended, unchanged, at the end
\* of the result list; a fragment that matches some chain is not appended,
\* so the list never holds more chains than fragments taken so far.
C20_Append ==
    [][/\ AtFragment =>
              /\ NoMatch(old_contours[s]) =>
                     /\ contours' = Append(contours, old_contours[s])
                     /\ pc' = "stitch"
                     /\ s' = s + 1
              /\ ~NoMatch(old_contours[s]) => Len(contours') = Len(contours)
       /\ pc = "stitch" =>
              /\ Len(contours') <= s' - 1
              /\ s' - 1 <= Len(old_contours')
       /\ pc \notin {"match", "parse"} => Len(contours') <= Len(old_contours')
      ]_vars

\* three fragments taken: the second matched nothing and is the second
\* chain, the third was spliced behind the first and is no chain of its own
C20_Witness ==
    /\ pc = "stitch"
    /\ s = 4
    /\ Len(old_contours) = 3
    /\ Len(contours) = 2
    /\ contours[2] = old_contours[2]
    /\ contours[1].points = old_contours[1].points \o old_contours[3].points

\* C21 as stated: a step of the placement loop changes no label recorded
\* before it, and until the labels are serialized every recorded label
\* carries the text of a data line of the input with its own x, y and z.
C21_Original ==
    [][/\ pc = "place" =>
              \A l \in 1..Len(labelpoints) : labelpoints'[l] = labelpoints[l]
       /\ pc' \in {"place", "write_contours", "open_labels"} =>
              \A l \in 1..Len(labelpoints') :
                  LET p == labelpoints'[l]
                  IN  /\ datapat(p.text)
                      /\ <<p.text.x, p.text.y, p.text.z>> = <<p.x, p.y, p.z>>
                      /\ \E id \in DOMAIN lines : lines[id] = p.text
      ]_vars

\* The numbers of the data lines among the first n lines, in file order.
DataIds(n) ==
    SelectSeq([q \in 1..n |-> q], LAMBDA q : datapat(lines[q]))
PointsOf(cs) == Flatten([q \in 1..Len(cs) |-> cs[q].points])
\* The parser's contours so far, the open one last.
ParsedSoFar == IF contour.open THEN Append(contours, contour) ELSE contours
\* The parser has ended and the stitcher has not started.
Parsed == pc = "stitch" /\ s = 1

\* C22: the points of the parser's contours, concatenated in list order, are
\* the data lines of the input in file order, each once, the points of a
\* contour still open at end of input included; each point holds its line's
\* text and fields.
C22_NoLoss ==
    /\ pc = "parse" => PointsOf(ParsedSoFar) = DataIds(i - 1)
    /\ (filename.match /\ pc \notin {"match", "parse"}) =>
           PointsOf(old_contours) = DataIds(Len(lines))
    /\ Parsed =>
           \A id \in 1..Len(lines) :
               datapat(lines[id]) =>
                   heap[id] = DataPoint(lines[id], lines[id].x, lines[id].y,
                                        lines[id].z)

\* three data lines in two contours, the second one open at end of input
C22_Witness ==
    /\ Parsed
    /\ Len(lines) = 3
    /\ \A n \in 1..3 : datapat(lines[n])
    /\ Len(old_contours) = 2
    /\ contour.open
    /\ Len(contour.points) = 2

\* Every point of the contour c carries the z string that labels c.
OneLevel(c) == \A n \in 1..Len(c.points) : heap[c.points[n]].z = c.label

\* C23: every point of a parsed contour has the contour's label as its z
\* string, while the parser runs and in its output: a data line of another
\* z closes the open contour and opens one labelled by the new z.
C23_StableZ ==
    /\ pc = "parse" =>
           \A q \in 1..Len(ParsedSoFar) : OneLevel(ParsedSoFar[q])
    /\ Parsed => \A q \in 1..Len(old_contours) : OneLevel(old_contours[q])

\* a header "1", a data line of z = 1.5 and a data line of z = 1, with no
\* line between them: two contours, labelled 1.5 and 1
C23_Witness ==
    /\ Parsed
    /\ Len(lines) = 3
    /\ lines[1] = HeaderLine("1")
    /\ datapat(lines[2]) /\ lines[2].z = "1.5"
    /\ datapat(lines[3]) /\ lines[3].z = "1"
    /\ Len(old_contours) = 2
    /\ old_contours[1].label = "1.5"
    /\ old_contours[2].label = "1"

\* The line loop is at line number i of the input.
AtLine == pc = "parse" /\ i <= Len(lines)

\* C24: a header line appends the open contour, if any, to the list and
\* opens a contour without points labelled by the header; a data line whose
\* z is the open contour's label is added at the end of that contour and
\* closes nothing.
C24_Header ==
    [][/\ (AtLine /\ headpat(lines[i])) =>
              /\ contours' = IF contour.open THEN Append(contours, contour)
                             ELSE contours
              /\ contour' = [open |-> TRUE, label |-> lines[i].z,
                             points |-> <<>>]
       /\ (AtLine /\ datapat(lines[i]) /\ contour.open
              /\ contour.label = lines[i].z) =>
              /\ contours' = contours
              /\ contour' = [contour EXCEPT !.points = Append(@, i)]
      ]_vars

\* a data line, a header and a data line, all of z = 1: two contours of one
\* point each, both labelled 1
C24_Witness ==
    /\ Parsed
    /\ Len(lines) = 3
    /\ datapat(lines[1]) /\ lines[1].z = "1"
    /\ lines[2] = HeaderLine("1")
    /\ datapat(lines[3]) /\ lines[3].z = "1"
    /\ Len(old_contours) = 2
    /\ old_contours[1] = [open |-> TRUE, label |-> "1", points |-> <<1>>]
    /\ old_contours[2] = [open |-> TRUE, label |-> "1", points |-> <<3>>]

\* A line the parser acts on: a header, a data line or an empty line.
Significant(line) == headpat(line) \/ datapat(line) \/ line = EmptyLine

\* The contours the line loop and the filter build from the lines ls, each
\* with the texts of its points in place of the points; cs and cur are the
\* list and the open contour so far.
RECURSIVE ParseTexts(_, _, _)
ParseTexts(ls, cs, cur) ==
    LET closed == IF cur.open THEN Append(cs, cur) ELSE cs
    IN  IF ls = <<>> THEN SelectSeq(closed, NonEmpty)
        ELSE LET line == Head(ls)
             IN  IF headpat(line)
                 THEN ParseTexts(Tail(ls), closed, Contour(line.z))
                 ELSE IF datapat(line)
                 THEN IF cur.open /\ cur.label = line.z
                      THEN ParseTexts(Tail(ls), cs,
                               [cur EXCEPT !.points = Append(@, line)])
                      ELSE ParseTexts(Tail(ls), closed,
                               [Contour(line.z) EXCEPT !.points = <<line>>])
                 ELSE IF line = EmptyLine
                 THEN ParseTexts(Tail(ls), closed, None)
                 ELSE ParseTexts(Tail(ls), cs, cur)

\* C25: a comment line or a line of no known form changes neither the open
\* contour nor the list nor any point and the loop goes on; the parser's
\* output for an input that holds such lines is, read as texts, that of
\* the input without them.
C25_Ignored ==
    [][/\ (AtLine /\ ~Significant(lines[i])) =>
              /\ UNCHANGED <<contour, contours, heap>>
              /\ pc' = "parse"
              /\ i' = i + 1
       /\ (pc = "parse" /\ pc' = "stitch"
              /\ \E n \in 1..Len(lines) : ~Significant(lines[n])) =>
              [q \in 1..Len(old_contours') |->
                  [old_contours'[q] EXCEPT
                      !.points = [n \in 1..Len(@) |-> heap'[@[n]].text]]]
                = ParseTexts(SelectSeq(lines, Significant), <<>>, None)
      ]_vars

\* two data lines of z = 1 with a line of no known form between them: one
\* contour of two points
C25_Witness ==
    /\ Parsed
    /\ Len(lines) = 3
    /\ lines[2] = OtherLine
    /\ Len(old_contours) = 1
    /\ old_contours[1].points = <<1, 3>>

\* C26: an empty line appends the open contour to the list and leaves no
\* contour open; met while no contour is open it changes nothing.
C26_Blank ==
    [][(AtLine /\ lines[i] = EmptyLine) =>
          /\ contour.open =>
                 /\ contours' = Append(contours, contour)
                 /\ ~contour'.open
          /\ ~contour.open => UNCHANGED <<contour, contours>>
          /\ heap' = heap
          /\ pc' = "parse"
          /\ i' = i + 1
      ]_vars

\* two data lines of z = 1 with an empty line between them: two contours of
\* one point each
C26_Witness ==
    /\ Parsed
    /\ Len(lines) = 3
    /\ lines[2] = EmptyLine
    /\ lines[1].z = "1" /\ lines[3].z = "1"
    /\ Len(old_contours) = 2
    /\ old_contours[1].points = <<1>>
    /\ old_contours[2].points = <<3>>

\* C27: the parser's output holds no contour without points and never more
\* contours than the input has data lines; a header that no data line of
\* its label follows leaves no contour, and the parser does not abort.
C27_NoEmptyContour ==
    (filename.match /\ pc \notin {"match", "parse"}) =>
        /\ i = Len(lines) + 1
        /\ \A q \in 1..Len(old_contours) : Len(old_contours[q].points) > 0
        /\ Len(old_contours) <= Len(SelectSeq(lines, datapat))
        /\ \A q \in 1..Len(old_contours) :
               datapat(lines[old_contours[q].points[1]])

\* two headers and an empty line: the parser ends with no contour
C27_Witness ==
    /\ Parsed
    /\ Len(lines) = 3
    /\ headpat(lines[1])
    /\ headpat(lines[2])
    /\ lines[3] = EmptyLine
    /\ old_contours = <<>>
    /\ err = ""

\* The source lines of the first and the last point of c.
EndTexts(c) == {lines[c.points[1]], lines[Last(c.points)]}

\* C28: a step of the stitching loop changes a chain, or aborts, only when
\* the first or last line of the fragment is, as text, the first or last line
\* of a chain; a fragment with no such chain is appended as a chain of its
\* own, whatever the values and the inner points of the chains.
C28_TextEquality ==
    [][AtFragment =>
          LET co == old_contours[s]
              touching == {n \in 1..Len(contours) :
                              EndTexts(co) \cap EndTexts(contours[n]) # {}}
          IN  /\ \A n \in 1..Len(contours) :
                     contours'[n] # contours[n] => n \in touching
              /\ pc' = "abort" => touching # {}
              /\ touching = {} => contours' = Append(contours, co)
              /\ touching # {} =>
                     \/ pc' = "abort"
                     \/ \E n \in touching : contours'[n] # contours[n]
      ]_vars

\* the last point of the first fragment and the first point of the second
\* have the same x, y and z and differ as text: two chains
C28_Witness ==
    /\ pc = "stitch"
    /\ s = 3
    /\ Len(contours) = 2
    /\ LET a == heap[Last(old_contours[1].points)]
           b == heap[old_contours[2].points[1]]
       IN  /\ <<a.x, a.y, a.z>> = <<b.x, b.y, b.z>>
           /\ a.text # b.text

\* C29: while and after the stitcher runs, all points of a chain carry the
\* z string that labels the chain: no chain joins two z levels.
C29_OneLevelChains ==
    pc \notin {"match", "parse"} =>
        \A q \in 1..Len(contours) : OneLevel(contours[q])

\* two chains of different z stay apart although the last point of the
\* first and the first point of the second have the same x and y
C29_Witness ==
    /\ Stitched
    /\ Len(contours) = 2
    /\ contours[1].label # contours[2].label
    /\ Len(contours[1].points) = 2
    /\ LET a == heap[Last(contours[1].points)]
           b == heap[contours[2].points[1]]
       IN  <<a.x, a.y>> = <<b.x, b.y>>

\* C30 as stated: in the label file a label whose z has no decimal point
\* is written with z in one decimal place, and a label whose z has a
\* decimal point is written with its z unchanged.
C30_Original ==
    pc = "done" =>
        \A l \in 1..Len(labfile.lines) :
            datapat(labfile.lines[l]) =>
                labfile.lines[l].z = IF HasDot(labelpoints[l].z)
                                     THEN labelpoints[l].z
                                     ELSE OneDecimal(labelpoints[l].z)

\* C30: a step of the label output writes a label whose z has no decimal
\* point and the integer value 1 as a data line with z = 1.0; every other
\* label it writes as a data line keeps its z string, and on a panel without
\* adjustments keeps its whole text.
C30_OnlyOne ==
    [][(pc = "write_labels" /\ pc' = "write_labels"
          /\ Len(labfile'.lines) = Len(labfile.lines) + 1) =>
          LET p == labelpoints[w]
              out == Last(labfile'.lines)
          IN  IF ~HasDot(p.z) /\ IntOf(p.z) = 1
              THEN datapat(out) /\ out.z = "1.0" /\ out.pad = TwoSpaces
              ELSE /\ datapat(out) => out.z = p.z
                   /\ organtech = "other" => out = p.text
      ]_vars

\* a label of z = 1 was written with z = 1.0
C30_Witness ==
    /\ pc = "done"
    /\ Len(labelpoints) = 1
    /\ labelpoints[1].z = "1"
    /\ labfile.lines = <<Format(labelpoints[1].x, labelpoints[1].y, "1.0")>>

====
